---- MODULE Spec2Model ----
(***************************************************************************)
(* A model of vdl's watch/download daemon (src/src/main.rs): the registry  *)
(* InnerSub behind one mutex, the orchestration loop Subscriber::spawn,    *)
(* the control channel Ipc::spawn / Ipc::handle_request and the            *)
(* supervisory loop of serve with its config reload.                       *)
(*                                                                         *)
(* Strings whose content the code inspects (Id encodings, staging          *)
(* directory names) are sequences of one-character strings.                *)
(***************************************************************************)
EXTENDS Integers, Sequences, FiniteSets, TLC

(***************************************************************************)
(* Bounds of the model.                                                    *)
(***************************************************************************)
\* Number of distinct YouTube keys (channel handles and video ids).
NumYtKeys == 2

\* Longest key string of the Ids taken through format and parse.
MaxKeyLen == 3

Alphabet == <<"a", "b", "c", "d">>

YtKeys == {<<Alphabet[n]>> : n \in 1..NumYtKeys}

TwitchKeys == {<<"t">>}

(***************************************************************************)
(* enum Id { Yt { yt_id }, Twitch { twitch_id } }                          *)
(***************************************************************************)
Yt(k) == [kind |-> "Yt", key |-> k]

Twitch(k) == [kind |-> "Twitch", key |-> k]

Ids == {Yt(k) : k \in YtKeys} \cup {Twitch(k) : k \in TwitchKeys}

YtPrefix == <<"y", "t", ":">>

TwitchPrefix == <<"t", "w", "i", "t", "c", "h", ":">>

\* impl Display for Id
Format(id) ==
    IF id.kind = "Yt" THEN YtPrefix \o id.key ELSE TwitchPrefix \o id.key

\* str::strip_prefix
HasPrefix(s, p) == Len(s) >= Len(p) /\ SubSeq(s, 1, Len(p)) = p

StripPrefix(s, p) == SubSeq(s, Len(p) + 1, Len(s))

\* impl FromStr for Id: the "yt:" prefix is tried first, then "twitch:".
ParseOk(s) == HasPrefix(s, YtPrefix) \/ HasPrefix(s, TwitchPrefix)

\* Mutant: every leading "yt:" is stripped (trim_start_matches), not one.
RECURSIVE TrimYt(_)
TrimYt(s) == IF HasPrefix(s, YtPrefix) THEN TrimYt(StripPrefix(s, YtPrefix)) ELSE s

ParseTrimsAll(s) ==
    IF HasPrefix(s, YtPrefix)
    THEN Yt(TrimYt(s))
    ELSE Twitch(StripPrefix(s, TwitchPrefix))

Parse(s) ==
    IF HasPrefix(s, YtPrefix) THEN Yt(StripPrefix(s, YtPrefix))
    ELSE Twitch(StripPrefix(s, TwitchPrefix))

(***************************************************************************)
(* State.                                                                  *)
(***************************************************************************)
VARIABLES
    ids,          \* InnerSub.ids: the subscribed set
    watching,     \* InnerSub.watching: Id -> state of the task's JoinHandle
    downloaded,   \* InnerSub.downloaded
    lock,         \* holder of the Mutex<InnerSub> across steps: "free" or "sub"
    poisoned,     \* the mutex was poisoned by a panic of its holder
    subPc,        \* position of the Subscriber::spawn thread
    dirEntries,   \* items fs::read_dir(&cache_dir) has yet to yield
    todo,         \* Ids of the cloned subscribed set the dispatch pass has yet to visit
    spawned,      \* per Id, how many task threads std::thread::spawn started for it
    ipcPc,        \* position of the Ipc::spawn thread
    conn,         \* the connection the control channel is serving
    mainPc,       \* position of serve
    config,       \* serve's `config`
    oldDir,       \* serve's `old_dir` between loading and applying a reload
    cwd,          \* the process working directory
    reloadFlag,   \* the SIGHUP flag
    exitFlag,     \* the SIGTERM flag
    log,          \* the last line serve wrote to stderr
    proc,         \* "running", or how the process ended
    task,         \* one call of Viewer::dl: its position, its result and the files it sees
    rt            \* one Id taken through to_string() and parse()

regVars == <<ids, watching, downloaded>>

lockVars == <<lock, poisoned>>

subVars == <<subPc, dirEntries, todo, spawned>>

ipcVars == <<ipcPc, conn>>

mainVars == <<mainPc, config, oldDir, cwd, reloadFlag, exitFlag, log>>

fnVars == <<task, rt>>

vars == <<regVars, lockVars, subVars, ipcVars, mainVars, proc, fnVars>>

Running == proc = "running"

(***************************************************************************)
(* HashMap<Id, JoinHandle> as a function on the set of its keys.  A handle *)
(* is "running" until its thread ends; then it holds how the thread ended: *)
(* "ok" (Ok(())), "err" (Err(e)) or "panic" (join() gives Err(payload)).   *)
(***************************************************************************)
Keyset(m) == DOMAIN m

EmptyMap == [i \in {} |-> "running"]

\* HashMap::insert
MapInsert(m, k, v) == [i \in (DOMAIN m) \cup {k} |-> IF i = k THEN v ELSE m[i]]

\* HashMap::remove, for each key of a set
MapRemoveAll(m, ks) == [i \in (DOMAIN m) \ ks |-> m[i]]

\* JoinHandle::is_finished
IsFinished(h) == h # "running"

\* All orders in which a set can be iterated (HashMap / HashSet iteration order).
Orders(S) ==
    {q \in [1..Cardinality(S) -> S] : \A a, b \in 1..Cardinality(S) : q[a] = q[b] => a = b}

(***************************************************************************)
(* Acquisition task threads (Viewer::twitch_dl / Viewer::yt_dl), seen from *)
(* the registry: a running task ends with Ok, with Err, or by panicking    *)
(* (dl unwraps tmp_out_path.to_str(), main.rs line 185).  A task changes   *)
(* no registry field; only its handle reports the end.                     *)
(***************************************************************************)
TaskEnds == {"ok", "err", "panic"}

TaskFinish(i, end) ==
    /\ Running
    /\ i \in Keyset(watching)
    /\ watching[i] = "running"
    /\ watching' = [watching EXCEPT ![i] = end]
    /\ UNCHANGED <<ids, downloaded, lockVars, subVars, ipcVars, mainVars, proc, fnVars>>

(***************************************************************************)
(* Subscriber::spawn, startup recovery (main.rs 314-361).                  *)
(***************************************************************************)
\* A name without the colon of either prefix.
JunkNames == {<<"y", "t">>}

StagingNames == {Format(i) : i \in Ids} \cup JunkNames

\* Items of the ReadDir iterator: Ok(entry) with its file name, or Err(e).
DirItems ==
    {[ok |-> TRUE, name |-> n] : n \in StagingNames} \cup {[ok |-> FALSE, name |-> <<>>]}

\* Mutant: only names with the "yt:" prefix are recovered.
RecoveredIdsYtOnly(items) ==
    {Parse(e.name) : e \in {x \in items : x.ok /\ HasPrefix(x.name, YtPrefix)}}

\* The Ids the loop over the directory items spawns a task for:
\* Err items and names that do not parse are skipped with `continue`.
RecoveredIds(items) == {Parse(e.name) : e \in {x \in items : x.ok /\ ParseOk(x.name)}}

\* create_dir_all / read_dir fail: spawn returns Err before touching the registry.
SubRecoverFail ==
    /\ Running
    /\ subPc = "start"
    /\ subPc' = "returned"
    /\ dirEntries' = {}
    /\ UNCHANGED <<regVars, lockVars, todo, spawned, ipcVars, mainVars, proc, fnVars>>

\* The lock is taken, one task is spawned and inserted per parseable name,
\* and the lock is dropped (line 361).
SubRecover ==
    /\ Running
    /\ subPc = "start"
    /\ lock = "free"
    /\ ~poisoned
    /\ LET rec == RecoveredIds(dirEntries) IN
        /\ watching' = [i \in Keyset(watching) \cup rec |->
                            IF i \in rec THEN "running" ELSE watching[i]]
        /\ spawned' = [i \in Ids |-> IF i \in rec THEN spawned[i] + 1 ELSE spawned[i]]
    /\ dirEntries' = {}
    /\ subPc' = "idle"
    /\ UNCHANGED <<ids, downloaded, lockVars, todo, ipcVars, mainVars, proc, fnVars>>

(***************************************************************************)
(* Subscriber::spawn, the loop (main.rs 363-451).                          *)
(***************************************************************************)
\* Where the loop over `remove` stops: at the first task that panicked
\* (join().expect(..) at line 379 panics there), or past the end.
ReapStop(m, q) ==
    LET P == {k \in 1..Len(q) : m[q[k]] = "panic"} IN
    IF P = {} THEN Len(q) + 1 ELSE CHOOSE k \in P : \A j \in P : k <= j

\* Lines 376-378: every element the loop reaches is removed from watching
\* before its join result is looked at.
ReapRemoved(q, stop) == {q[k] : k \in {j \in 1..Len(q) : j <= stop}}

\* Mutant: the reap pass forgets to record the Ids it removed.
ReapDownloadedNone(q, stop) == {}

\* Line 391: every element whose join gave a result, Ok or Err, is inserted
\* into downloaded.
ReapDownloaded(q, stop) == {q[k] : k \in {j \in 1..Len(q) : j < stop}}

\* Lines 364-394, the reap pass: lock, collect the Ids of the finished
\* tasks (in the map's iteration order), then for each: remove it from
\* watching, join it, insert it into downloaded.  A panicked task makes the
\* loop thread panic at its join, which unwinds, drops the guard and
\* poisons the mutex.  Otherwise the dispatch pass starts on a clone of ids
\* with the guard still held.
SubReap ==
    /\ Running
    /\ subPc = "idle"
    /\ lock = "free"
    /\ ~poisoned
    /\ \E q \in Orders({i \in Keyset(watching) : IsFinished(watching[i])}) :
        LET stop == ReapStop(watching, q) IN
        /\ watching' = MapRemoveAll(watching, ReapRemoved(q, stop))
        /\ downloaded' = downloaded \cup ReapDownloaded(q, stop)
        /\ IF stop <= Len(q)
           THEN /\ subPc' = "panicked"
                /\ poisoned' = TRUE
                /\ UNCHANGED <<lock, todo>>
           ELSE /\ subPc' = "dispatch"
                /\ lock' = "sub"
                /\ todo' = ids
                /\ UNCHANGED poisoned
    /\ UNCHANGED <<ids, dirEntries, spawned, ipcVars, mainVars, proc, fnVars>>

\* What yt-dlp -J can give Viewer::live_info (lines 114-128): the command
\* cannot be run, its output is empty, its output is not UTF-8 or not the
\* JSON of a YtLiveInfo, or it is an info with a video id and is_live.
YtProbeResults ==
    {[res |-> r, id |-> <<>>, is_live |-> FALSE] : r \in {"run_fail", "empty", "bad_output"}}
    \cup {[res |-> "info", id |-> k, is_live |-> l] : k \in YtKeys, l \in BOOLEAN}

\* live_info returns Ok(Some(info)) only for parseable, non-empty output.
LiveInfoIsSome(o) == o.res = "info"

\* What yt-dlp --quiet --simulate can give Viewer::twitch_is_live (203-214).
TwitchProbeResults == {"run_fail", "bad_utf8", "offline", "other_error", "live"}

\* twitch_is_live: false when the command cannot be run or stderr is not
\* UTF-8 or holds "The channel is not currently live"; true otherwise.
TwitchIsLive(o) == o \notin {"run_fail", "bad_utf8", "offline"}

\* Mutant: the start-task decision forgets the terminal set.
MayStartIgnoringDownloaded(w, d, v) == v \notin Keyset(w)

\* The start-task decision of both arms (lines 405-406, 426-427).
MayStart(w, d, v) == v \notin Keyset(w) /\ v \notin d

\* thread::spawn + watching.insert (lines 408-413, 430-435).
StartTask(v) ==
    /\ watching' = MapInsert(watching, v, "running")
    /\ spawned' = [spawned EXCEPT ![v] = @ + 1]

\* Mutant: the YouTube arm tests the subscribed channel Id against the
\* registry instead of the video Id it starts.
SubProbeYtTestsChannel(id, o) ==
    /\ Running
    /\ subPc = "dispatch"
    /\ id \in todo
    /\ id.kind = "Yt"
    /\ IF LiveInfoIsSome(o) /\ o.is_live /\ MayStart(watching, downloaded, id)
       THEN StartTask(Yt(o.id))
       ELSE UNCHANGED <<watching, spawned>>
    /\ todo' = todo \ {id}
    /\ UNCHANGED <<ids, downloaded, lockVars, subPc, dirEntries, ipcVars, mainVars, proc, fnVars>>

\* Lines 396-423: the next Id of the clone is a YouTube channel; its probe
\* runs (the guard taken at line 364 is held) and gives o.  The task is keyed
\* by the video Id the probe reports, not by the subscribed Id.
SubProbeYt(id, o) ==
    /\ Running
    /\ subPc = "dispatch"
    /\ id \in todo
    /\ id.kind = "Yt"
    /\ IF LiveInfoIsSome(o) /\ o.is_live /\ MayStart(watching, downloaded, Yt(o.id))
       THEN StartTask(Yt(o.id))
       ELSE UNCHANGED <<watching, spawned>>
    /\ todo' = todo \ {id}
    /\ UNCHANGED <<ids, downloaded, lockVars, subPc, dirEntries, ipcVars, mainVars, proc, fnVars>>

\* Lines 424-441: the next Id of the clone is a Twitch channel.
SubProbeTwitch(id, o) ==
    /\ Running
    /\ subPc = "dispatch"
    /\ id \in todo
    /\ id.kind = "Twitch"
    /\ IF TwitchIsLive(o) /\ MayStart(watching, downloaded, id)
       THEN StartTask(id)
       ELSE UNCHANGED <<watching, spawned>>
    /\ todo' = todo \ {id}
    /\ UNCHANGED <<ids, downloaded, lockVars, subPc, dirEntries, ipcVars, mainVars, proc, fnVars>>

\* Mutant: the loop sleeps and starts its next cycle without dropping the
\* guard.
SubUnlockKeepsGuard ==
    /\ Running
    /\ subPc = "dispatch"
    /\ todo = {}
    /\ subPc' = "idle"
    /\ UNCHANGED <<regVars, lockVars, dirEntries, todo, spawned, ipcVars, mainVars, proc, fnVars>>

\* Line 445: the guard is dropped; lines 447-450: the loop sleeps.
SubUnlock ==
    /\ Running
    /\ subPc = "dispatch"
    /\ todo = {}
    /\ lock' = "free"
    /\ subPc' = "idle"
    /\ UNCHANGED <<regVars, poisoned, dirEntries, todo, spawned, ipcVars, mainVars, proc, fnVars>>

(***************************************************************************)
(* Control channel: Ipc::spawn (main.rs 519-542) and Ipc::handle_request   *)
(* (544-552).  One thread runs the accept loop and serves each connection  *)
(* itself.                                                                 *)
(***************************************************************************)
\* serde_json writes IpcRequest::GetWatching as the JSON string "GetWatching".
GetWatchingBody == "\"GetWatching\""

\* Request bodies a client may send.
Bodies == {GetWatchingBody, "\"GetDownloaded\"", ""}

\* serde_json::de::from_slice::<IpcRequest>
DecodeOk(body) == body = GetWatchingBody

NoResp == [tag |-> "none", ids |-> <<>>]

\* IpcResponse::Error(format!("Error: failed to parse JSON request: {e}"))
ErrorResp == [tag |-> "Error", ids |-> <<>>]

\* IpcResponse::Watching(Vec<Id>)
WatchingResp(q) == [tag |-> "Watching", ids |-> q]

NoConn == [body |-> "none", resp |-> NoResp]

\* listener.accept() returns a connection (line 522) whose client sends b.
IpcAccept(b) ==
    /\ Running
    /\ ipcPc = "accept"
    /\ conn' = [body |-> b, resp |-> NoResp]
    /\ ipcPc' = "read"
    /\ UNCHANGED <<regVars, lockVars, subVars, mainVars, proc, fnVars>>

\* listener.accept()? fails: Ipc::spawn returns Err and the thread ends.
IpcAcceptFail ==
    /\ Running
    /\ ipcPc = "accept"
    /\ ipcPc' = "exited"
    /\ UNCHANGED <<regVars, lockVars, subVars, conn, mainVars, proc, fnVars>>

\* stream.read_to_end()? fails (line 525): the thread ends, the stream is dropped.
IpcReadFail ==
    /\ Running
    /\ ipcPc = "read"
    /\ conn' = NoConn
    /\ ipcPc' = "exited"
    /\ UNCHANGED <<regVars, lockVars, subVars, mainVars, proc, fnVars>>

\* The whole body was read and is decoded (lines 525-532): a request goes
\* to handle_request, anything else becomes IpcResponse::Error.
IpcRead ==
    /\ Running
    /\ ipcPc = "read"
    /\ IF DecodeOk(conn.body)
       THEN /\ ipcPc' = "handle"
            /\ UNCHANGED conn
       ELSE /\ ipcPc' = "write"
            /\ conn' = [conn EXCEPT !.resp = ErrorResp]
    /\ UNCHANGED <<regVars, lockVars, subVars, mainVars, proc, fnVars>>

\* Line 548: inner.watching.keys().cloned().collect::<Vec<_>>(), in the
\* map's iteration order.
WatchingKeys(w) == Orders(Keyset(w))

\* Mutant: GetWatching answers with the subscribed set.
IpcHandleReturnsSubscribed ==
    /\ Running
    /\ ipcPc = "handle"
    /\ lock = "free"
    /\ IF poisoned
       THEN /\ ipcPc' = "panicked"
            /\ conn' = NoConn
       ELSE /\ \E q \in Orders(ids) :
                conn' = [conn EXCEPT !.resp = WatchingResp(q)]
            /\ ipcPc' = "write"
    /\ UNCHANGED <<regVars, lockVars, subVars, mainVars, proc, fnVars>>

\* Mutant: GetWatching drains the map it reports.
IpcHandleDrains ==
    /\ Running
    /\ ipcPc = "handle"
    /\ lock = "free"
    /\ IF poisoned
       THEN /\ ipcPc' = "panicked"
            /\ conn' = NoConn
            /\ UNCHANGED watching
       ELSE /\ \E q \in WatchingKeys(watching) :
                conn' = [conn EXCEPT !.resp = WatchingResp(q)]
            /\ watching' = EmptyMap
            /\ ipcPc' = "write"
    /\ UNCHANGED <<ids, downloaded, lockVars, subVars, mainVars, proc, fnVars>>

\* handle_request, GetWatching: lock, copy the keys of watching, unlock.
\* lock().unwrap() panics when the mutex is poisoned: the thread ends.
IpcHandle ==
    /\ Running
    /\ ipcPc = "handle"
    /\ lock = "free"
    /\ IF poisoned
       THEN /\ ipcPc' = "panicked"
            /\ conn' = NoConn
       ELSE /\ \E q \in WatchingKeys(watching) :
                conn' = [conn EXCEPT !.resp = WatchingResp(q)]
            /\ ipcPc' = "write"
    /\ UNCHANGED <<regVars, lockVars, subVars, mainVars, proc, fnVars>>

\* stream.write_all(&response_json) succeeds (line 540); the loop body
\* ends, the stream is dropped (closed) and the loop is back at accept.
IpcWrite ==
    /\ Running
    /\ ipcPc = "write"
    /\ conn' = NoConn
    /\ ipcPc' = "accept"
    /\ UNCHANGED <<regVars, lockVars, subVars, mainVars, proc, fnVars>>

\* stream.write_all()? fails (the peer is gone): Ipc::spawn returns Err, the
\* stream is dropped and the accept loop is over.
IpcWriteFail ==
    /\ Running
    /\ ipcPc = "write"
    /\ conn' = NoConn
    /\ ipcPc' = "exited"
    /\ UNCHANGED <<regVars, lockVars, subVars, mainVars, proc, fnVars>>

(***************************************************************************)
(* serve (main.rs 666-728): signals and the supervisory loop.              *)
(***************************************************************************)
NoDir == "none"

Dirs == {"d1", "d2"}

\* dirs::video_dir(), where serve goes at startup when config.dir is None.
VideoDir == "videos"

\* struct Config { dir: Option<PathBuf>, ids: HashSet<Id> }
Configs == [dir : {NoDir} \cup Dirs, ids : SUBSET Ids]

\* The directory a configuration designates (line 678).
Designated(dir) == IF dir # NoDir THEN dir ELSE VideoDir

\* SIGHUP sets reload_config (line 669).
SigHup ==
    /\ Running
    /\ ~reloadFlag
    /\ reloadFlag' = TRUE
    /\ UNCHANGED <<regVars, lockVars, subVars, ipcVars, mainPc, config, oldDir, cwd, exitFlag, log, proc, fnVars>>

\* SIGTERM sets exit (line 670).
SigTerm ==
    /\ Running
    /\ ~exitFlag
    /\ exitFlag' = TRUE
    /\ UNCHANGED <<regVars, lockVars, subVars, ipcVars, mainPc, config, oldDir, cwd, reloadFlag, log, proc, fnVars>>

\* JoinHandle::is_finished of the subscriber thread.
SubFinished == subPc \in {"returned", "panicked"}

\* Lines 694-698: the subscriber thread has ended.  join().unwrap()? returns
\* its Err from serve (exit code 1), or panics when the thread panicked
\* (exit code 101); process::exit(1) follows a thread that returned Ok,
\* which the endless loop never does.
MainSubFinished ==
    /\ Running
    /\ mainPc = "tick"
    /\ SubFinished
    /\ log' = "Subscriber exited!"
    /\ proc' = IF subPc = "panicked" THEN "exit101" ELSE "exit1"
    /\ UNCHANGED <<regVars, lockVars, subVars, ipcVars, mainPc, config, oldDir, cwd, reloadFlag, exitFlag, fnVars>>

\* Lines 699-704: the terminate flag was set.
MainTerminate ==
    /\ Running
    /\ mainPc = "tick"
    /\ ~SubFinished
    /\ exitFlag
    /\ exitFlag' = FALSE
    /\ proc' = "exit1"
    /\ UNCHANGED <<regVars, lockVars, subVars, ipcVars, mainPc, config, oldDir, cwd, reloadFlag, log, fnVars>>

\* Mutant: a failed load falls back to the default configuration.
MainReloadFailResets ==
    /\ Running
    /\ mainPc = "tick"
    /\ ~SubFinished
    /\ ~exitFlag
    /\ reloadFlag
    /\ reloadFlag' = FALSE
    /\ log' = "Failed to reload state"
    /\ ids' = {}
    /\ UNCHANGED <<watching, downloaded, lockVars, subVars, ipcVars, mainPc, config, oldDir, cwd, exitFlag, proc, fnVars>>

\* Lines 705-707 and 720-722: the reload flag was set and Config::load fails;
\* nothing but the flag and the log changes.
MainReloadFail ==
    /\ Running
    /\ mainPc = "tick"
    /\ ~SubFinished
    /\ ~exitFlag
    /\ reloadFlag
    /\ reloadFlag' = FALSE
    /\ log' = "Failed to reload state"
    /\ UNCHANGED <<regVars, lockVars, subVars, ipcVars, mainPc, config, oldDir, cwd, exitFlag, proc, fnVars>>

\* Lines 705-711: the reload flag was set and Config::load gives c (the
\* file's content, or the default an absent file is created with):
\* old_dir = config.dir; config = c; then the lock is awaited.
MainReloadLoad(c) ==
    /\ Running
    /\ mainPc = "tick"
    /\ ~SubFinished
    /\ ~exitFlag
    /\ reloadFlag
    /\ reloadFlag' = FALSE
    /\ log' = "Reloaded config!"
    /\ oldDir' = config.dir
    /\ config' = c
    /\ mainPc' = "apply"
    /\ UNCHANGED <<regVars, lockVars, subVars, ipcVars, cwd, exitFlag, proc, fnVars>>

\* Line 714: the working directory is switched only when the new
\* configuration names a directory and it differs from the old one.
MustChdir(new, old) == new # NoDir /\ new # old

\* Mutant: the reload also drops the watchers of Ids no longer subscribed.
MainReloadApplyPrunes ==
    /\ Running
    /\ mainPc = "apply"
    /\ lock = "free"
    /\ IF poisoned
       THEN /\ proc' = "exit101"
            /\ UNCHANGED <<ids, cwd, config, watching>>
       ELSE /\ ids' = config.ids
            /\ watching' = MapRemoveAll(watching, Keyset(watching) \ config.ids)
            /\ config' = [config EXCEPT !.ids = {}]
            /\ IF MustChdir(config.dir, oldDir)
               THEN \E ok \in BOOLEAN :
                        IF ok
                        THEN cwd' = config.dir /\ UNCHANGED proc
                        ELSE proc' = "exit1" /\ UNCHANGED cwd
               ELSE UNCHANGED <<cwd, proc>>
    /\ oldDir' = NoDir
    /\ mainPc' = "tick"
    /\ UNCHANGED <<downloaded, lockVars, subVars, ipcVars, reloadFlag, exitFlag, log, fnVars>>

\* Lines 712-718 under the lock: inner.ids = config.ids (which moves the set
\* out of config); then set_current_dir(dir)?, whose failure returns Err
\* from serve (exit code 1).  lock().unwrap() panics when the mutex is
\* poisoned (exit code 101).
MainReloadApply ==
    /\ Running
    /\ mainPc = "apply"
    /\ lock = "free"
    /\ IF poisoned
       THEN /\ proc' = "exit101"
            /\ UNCHANGED <<ids, cwd, config>>
       ELSE /\ ids' = config.ids
            /\ config' = [config EXCEPT !.ids = {}]
            /\ IF MustChdir(config.dir, oldDir)
               THEN \E ok \in BOOLEAN :
                        IF ok
                        THEN cwd' = config.dir /\ UNCHANGED proc
                        ELSE proc' = "exit1" /\ UNCHANGED cwd
               ELSE UNCHANGED <<cwd, proc>>
    /\ oldDir' = NoDir
    /\ mainPc' = "tick"
    /\ UNCHANGED <<watching, downloaded, lockVars, subVars, ipcVars, reloadFlag, exitFlag, log, fnVars>>

(***************************************************************************)
(* A task thread: Viewer::yt_dl / Viewer::twitch_dl (main.rs 198-201,       *)
(* 216-219) and the call of Viewer::dl they make (130-196).  `task` holds  *)
(* the Id the thread was spawned for, the url, the position in dl, the     *)
(* number of yt-dlp processes the call has run, its result, and what       *)
(* exists on disk: the staging directory dl_dir, the staging file          *)
(* tmp_out_path and the final file final_out; `at` keeps what existed      *)
(* when the thread started.                                                *)
(***************************************************************************)
Files == {f \in [dir : BOOLEAN, tmp : BOOLEAN, final : BOOLEAN] : f.tmp => f.dir}

NoTask == [pc |-> "none", id |-> Yt(<<>>), url |-> <<>>, calls |-> 0, res |-> "none",
           fs |-> [dir |-> FALSE, tmp |-> FALSE, final |-> FALSE],
           at |-> [dir |-> FALSE, tmp |-> FALSE, final |-> FALSE]]

NewTask(i, f) ==
    [pc |-> "spawned", id |-> i, url |-> <<>>, calls |-> 0, res |-> "none", fs |-> f, at |-> f]

\* The url of lines 199 and 217.
UrlOf(i) ==
    IF i.kind = "Yt"
    THEN <<"https://www.youtube.com/watch?v=">> \o i.key
    ELSE <<"https://www.twitch.tv/">> \o i.key

\* yt_dl / twitch_dl: format the url and call dl.
DlCall ==
    /\ task.pc = "spawned"
    /\ task' = [task EXCEPT !.pc = "start", !.url = UrlOf(task.id)]
    /\ UNCHANGED <<regVars, lockVars, subVars, ipcVars, mainVars, proc, rt>>

\* return from dl with result r
DlReturn(r) == [task EXCEPT !.pc = "done", !.res = r]

\* Line 131: std::env::current_dir()?
DlCurrentDir(ok) ==
    /\ task.pc = "start"
    /\ task' = IF ok THEN [task EXCEPT !.pc = "query"] ELSE DlReturn("err")
    /\ UNCHANGED <<regVars, lockVars, subVars, ipcVars, mainVars, proc, rt>>

\* What `yt-dlp <url> --print _filename` can give: it cannot be run, its
\* stdout is not UTF-8, its trimmed stdout is empty, or it prints a name.
QueryResults == {"run_fail", "bad_utf8", "empty", "name"}

\* Lines 132-143: the filename query.  When the process cannot be run dl
\* returns Ok(()); undecodable output and an empty name return Err.
DlQuery(o) ==
    /\ task.pc = "query"
    /\ task' = CASE o = "run_fail" -> DlReturn("ok")
                 [] o = "bad_utf8" -> [DlReturn("err") EXCEPT !.calls = @ + 1]
                 [] o = "empty" -> [DlReturn("err") EXCEPT !.calls = @ + 1]
                 [] OTHER -> [task EXCEPT !.pc = "final", !.calls = @ + 1]
    /\ UNCHANGED <<regVars, lockVars, subVars, ipcVars, mainVars, proc, rt>>

\* Lines 151-153: fs::exists(&final_out)?; an existing final file returns
\* Ok(()) and leaves the staging directory as it is.
DlCheckFinal(ok) ==
    /\ task.pc = "final"
    /\ task' = IF ~ok THEN DlReturn("err")
               ELSE IF task.fs.final THEN DlReturn("ok")
               ELSE [task EXCEPT !.pc = "tmp"]
    /\ UNCHANGED <<regVars, lockVars, subVars, ipcVars, mainVars, proc, rt>>

\* Lines 154-160: an existing staging file is renamed to the final file
\* and the staging directory removed; either can fail.
DlMove(renamed, removed) ==
    /\ task.pc = "tmp"
    /\ task.fs.tmp
    /\ task' = IF ~renamed THEN DlReturn("err")
               ELSE IF ~removed
               THEN [DlReturn("err") EXCEPT !.fs = [dir |-> TRUE, tmp |-> FALSE, final |-> TRUE]]
               ELSE [DlReturn("ok") EXCEPT !.fs = [dir |-> FALSE, tmp |-> FALSE, final |-> TRUE]]
    /\ UNCHANGED <<regVars, lockVars, subVars, ipcVars, mainVars, proc, rt>>

\* Lines 162-175: no staging file; an existing staging directory is
\* removed and an empty one created; either can fail.
DlPrepare(removed, created) ==
    /\ task.pc = "tmp"
    /\ ~task.fs.tmp
    /\ task' = IF task.fs.dir /\ ~removed THEN DlReturn("err")
               ELSE IF ~created THEN [DlReturn("err") EXCEPT !.fs.dir = FALSE]
               ELSE [task EXCEPT !.pc = "download", !.fs.dir = TRUE]
    /\ UNCHANGED <<regVars, lockVars, subVars, ipcVars, mainVars, proc, rt>>

\* What the download at lines 177-190 can give: tmp_out_path is not UTF-8
\* (to_str().unwrap() panics), yt-dlp cannot be run (status()? returns
\* Err), or it runs and did or did not write the staging file; its exit
\* status is not looked at.
DownloadResults == {"bad_path", "run_fail", "wrote", "no_file"}

DlDownload(o) ==
    /\ task.pc = "download"
    /\ task' = CASE o = "bad_path" -> DlReturn("panic")
                 [] o = "run_fail" -> DlReturn("err")
                 [] o = "wrote" -> [task EXCEPT !.pc = "finish", !.calls = @ + 1, !.fs.tmp = TRUE]
                 [] OTHER -> [task EXCEPT !.pc = "finish", !.calls = @ + 1]
    /\ UNCHANGED <<regVars, lockVars, subVars, ipcVars, mainVars, proc, rt>>

\* Lines 192-195: the staging file is renamed to the final file (which
\* fails when there is none) and the staging directory removed.
DlFinish(renamed, removed) ==
    /\ task.pc = "finish"
    /\ task' = IF ~(renamed /\ task.fs.tmp) THEN DlReturn("err")
               ELSE IF ~removed
               THEN [DlReturn("err") EXCEPT !.fs = [dir |-> TRUE, tmp |-> FALSE, final |-> TRUE]]
               ELSE [DlReturn("ok") EXCEPT !.fs = [dir |-> FALSE, tmp |-> FALSE, final |-> TRUE]]
    /\ UNCHANGED <<regVars, lockVars, subVars, ipcVars, mainVars, proc, rt>>

(***************************************************************************)
(* One Id taken through its canonical string: to_string() (Display,        *)
(* main.rs 248-255) and then str::parse::<Id>() (FromStr, 257-272).        *)
(***************************************************************************)
\* Keys are the strings of at most MaxKeyLen characters over KeyChars,
\* which has the characters of the prefix "yt:".
KeyChars == {"y", "t", ":"}

KeysOfLen(n) == [1..n -> KeyChars]

Keys == UNION {KeysOfLen(n) : n \in 0..MaxKeyLen}

KeyIds == {Yt(k) : k \in Keys} \cup {Twitch(k) : k \in Keys}

NoRt == [pc |-> "none", id |-> Yt(<<>>), str |-> <<>>, ok |-> FALSE, out |-> Yt(<<>>)]

NewRt(i) == [pc |-> "id", id |-> i, str |-> <<>>, ok |-> FALSE, out |-> Yt(<<>>)]

\* id.to_string()
IdToString ==
    /\ rt.pc = "id"
    /\ rt' = [rt EXCEPT !.pc = "string", !.str = Format(rt.id)]
    /\ UNCHANGED <<regVars, lockVars, subVars, ipcVars, mainVars, proc, task>>

\* s.parse::<Id>(): Ok(id) or Err
IdParse ==
    /\ rt.pc = "string"
    /\ rt' = IF ParseOk(rt.str)
             THEN [rt EXCEPT !.pc = "parsed", !.ok = TRUE, !.out = Parse(rt.str)]
             ELSE [rt EXCEPT !.pc = "parsed", !.ok = FALSE]
    /\ UNCHANGED <<regVars, lockVars, subVars, ipcVars, mainVars, proc, task>>

(***************************************************************************)
(* The daemon once serve has spawned its threads (lines 676-691): the      *)
(* startup configuration (a directory among dirs, a subscribed set among   *)
(* idsets) was loaded and applied, the registry holds its ids and nothing  *)
(* else, and the staging tree holds a subset of items.                     *)
(***************************************************************************)
InitOf(dirs, idsets, items) ==
    /\ config \in [dir : dirs, ids : {{}}]
    /\ ids \in idsets
    /\ cwd = Designated(config.dir)
    /\ watching = EmptyMap
    /\ downloaded = {}
    /\ lock = "free"
    /\ poisoned = FALSE
    /\ subPc = "start"
    /\ dirEntries \in SUBSET items
    /\ todo = {}
    /\ spawned = [i \in Ids |-> 0]
    /\ ipcPc = "accept"
    /\ conn = NoConn
    /\ mainPc = "tick"
    /\ oldDir = NoDir
    /\ reloadFlag = FALSE
    /\ exitFlag = FALSE
    /\ log = ""
    /\ proc = "running"
    /\ task = NoTask
    /\ rt = NoRt

\* Liveness probes that start no task.
YtQuiet == {o \in YtProbeResults : ~(LiveInfoIsSome(o) /\ o.is_live)}

TwitchQuiet == {o \in TwitchProbeResults : ~TwitchIsLive(o)}

\* Configurations that name no directory and subscribe to nothing or to
\* every Id.
PlainConfigs == {c \in Configs : c.dir = NoDir /\ c.ids \in {{}, Ids}}

NextTasks == \E i \in Ids, end \in TaskEnds : TaskFinish(i, end)

\* The orchestration loop with probes that give any result.
NextSub ==
    \/ SubRecoverFail
    \/ SubRecover
    \/ SubReap
    \/ \E id \in Ids, o \in YtProbeResults : SubProbeYt(id, o)
    \/ \E id \in Ids, o \in TwitchProbeResults : SubProbeTwitch(id, o)
    \/ SubUnlock

\* The registry under the orchestration loop, the task threads and reloads
\* of the subscribed set (any set at startup; none or all of the Ids by a
\* reload); no client connects, no terminate signal arrives and no
\* configuration names a directory.
NextReg ==
    \/ NextTasks
    \/ NextSub
    \/ SigHup
    \/ MainSubFinished
    \/ MainReloadFail
    \/ \E c \in PlainConfigs : MainReloadLoad(c)
    \/ MainReloadApply

Spec == InitOf({NoDir}, SUBSET Ids, DirItems) /\ [][NextReg]_vars

\* The control channel beside the orchestration loop and the task threads;
\* every Id or none is subscribed and no signal arrives.
NextChan ==
    \/ NextTasks
    \/ NextSub
    \/ \E b \in Bodies : IpcAccept(b)
    \/ IpcAcceptFail
    \/ IpcReadFail
    \/ IpcRead
    \/ IpcHandle
    \/ IpcWrite
    \/ IpcWriteFail

SpecIpc == InitOf({NoDir}, {{}, Ids}, DirItems) /\ [][NextChan]_vars

\* The supervisory loop with every signal and every configuration, beside
\* an orchestration loop that finds the staging tree empty and no channel
\* live; no client connects.
NextSup ==
    \/ SubRecoverFail
    \/ SubRecover
    \/ SubReap
    \/ \E id \in Ids, o \in YtQuiet : SubProbeYt(id, o)
    \/ \E id \in Ids, o \in TwitchQuiet : SubProbeTwitch(id, o)
    \/ SubUnlock
    \/ SigHup
    \/ SigTerm
    \/ MainSubFinished
    \/ MainTerminate
    \/ MainReloadFail
    \/ \E c \in Configs : MainReloadLoad(c)
    \/ MainReloadApply

SpecReload == InitOf({NoDir} \cup Dirs, SUBSET Ids, {}) /\ [][NextSup]_vars

\* Liveness probes that report a live channel.
YtLive == {o \in YtProbeResults : LiveInfoIsSome(o) /\ o.is_live}

TwitchLive == {"live"}

\* The orchestration loop and the task threads when every probe reports a
\* live channel and the staging tree is empty at startup; no client
\* connects and no signal arrives.
NextLive ==
    \/ NextTasks
    \/ SubRecover
    \/ SubReap
    \/ \E id \in Ids, o \in YtLive : SubProbeYt(id, o)
    \/ \E id \in Ids, o \in TwitchLive : SubProbeTwitch(id, o)
    \/ SubUnlock

SpecLive == InitOf({NoDir}, SUBSET Ids, {}) /\ [][NextLive]_vars

\* Liveness probes that end in an error: the executor cannot be run, its
\* output cannot be decoded, or (Twitch) it reports an error other than
\* the channel being offline.
YtFailed == {o \in YtProbeResults : o.res \in {"run_fail", "bad_output"}}

TwitchFailed == {"run_fail", "bad_utf8", "other_error"}

\* The orchestration loop and the task threads when every probe ends in an
\* error; no client connects and no signal arrives.
NextErr ==
    \/ NextTasks
    \/ SubRecover
    \/ SubReap
    \/ \E id \in Ids, o \in YtFailed : SubProbeYt(id, o)
    \/ \E id \in Ids, o \in TwitchFailed : SubProbeTwitch(id, o)
    \/ SubUnlock

SpecErr == InitOf({NoDir}, SUBSET Ids, DirItems) /\ [][NextErr]_vars

\* The orchestration loop keeps being scheduled and every probe call
\* returns: the loop takes each of its steps when that step stays possible.
LoopFairness ==
    /\ WF_vars(SubRecover)
    /\ WF_vars(SubReap)
    /\ WF_vars(\E id \in Ids, o \in YtProbeResults : SubProbeYt(id, o))
    /\ WF_vars(\E id \in Ids, o \in TwitchProbeResults : SubProbeTwitch(id, o))
    /\ WF_vars(SubUnlock)

\* The orchestration loop, scheduled fairly, and the task threads; no
\* client connects and no signal arrives.
NextLoop == NextTasks \/ NextSub

SpecFair == InitOf({NoDir}, SUBSET Ids, DirItems) /\ [][NextLoop]_vars /\ LoopFairness

\* The three threads that take the registry lock, together: the
\* orchestration loop (with its task threads), the control channel serving
\* GetWatching requests, and serve reloading the subscribed set.  Only
\* Twitch probes find a live channel, the staging tree is empty at startup
\* and no terminate signal arrives.
NextLock ==
    \/ NextTasks
    \/ SubRecover
    \/ SubReap
    \/ \E id \in Ids, o \in YtQuiet : SubProbeYt(id, o)
    \/ \E id \in Ids, o \in TwitchProbeResults : SubProbeTwitch(id, o)
    \/ SubUnlock
    \/ IpcAccept(GetWatchingBody)
    \/ IpcRead
    \/ IpcHandle
    \/ IpcWrite
    \/ SigHup
    \/ MainSubFinished
    \/ \E c \in PlainConfigs : MainReloadLoad(c)
    \/ MainReloadApply

SpecLock == InitOf({NoDir}, {{}, Ids}, {}) /\ [][NextLock]_vars

\* The daemon's threads at rest and one call in hand: a task thread among
\* tasks or an Id among rts.
InitCall(tasks, rts) ==
    /\ config = [dir |-> NoDir, ids |-> {}]
    /\ ids = {}
    /\ cwd = VideoDir
    /\ watching = EmptyMap
    /\ downloaded = {}
    /\ lock = "free"
    /\ poisoned = FALSE
    /\ subPc = "start"
    /\ dirEntries = {}
    /\ todo = {}
    /\ spawned = [i \in Ids |-> 0]
    /\ ipcPc = "accept"
    /\ conn = NoConn
    /\ mainPc = "tick"
    /\ oldDir = NoDir
    /\ reloadFlag = FALSE
    /\ exitFlag = FALSE
    /\ log = ""
    /\ proc = "running"
    /\ task \in tasks
    /\ rt \in rts

\* One task thread for any Id and any state of the files, with every outcome
\* of its subprocesses and file operations.
NextDl ==
    \/ DlCall
    \/ \E ok \in BOOLEAN : DlCurrentDir(ok)
    \/ \E o \in QueryResults : DlQuery(o)
    \/ \E ok \in BOOLEAN : DlCheckFinal(ok)
    \/ \E renamed, removed \in BOOLEAN : DlMove(renamed, removed)
    \/ \E removed, created \in BOOLEAN : DlPrepare(removed, created)
    \/ \E o \in DownloadResults : DlDownload(o)
    \/ \E renamed, removed \in BOOLEAN : DlFinish(renamed, removed)

SpecDl == InitCall({NewTask(i, f) : i \in Ids, f \in Files}, {NoRt}) /\ [][NextDl]_vars

\* Every Id with a key of the bounded set, formatted and parsed.
NextId == IdToString \/ IdParse

SpecId == InitCall({NoTask}, {NewRt(i) : i \in KeyIds}) /\ [][NextId]_vars

\* The control-channel thread keeps being scheduled: it takes each of its
\* steps when that step stays possible, and gets the registry lock when
\* the lock is free again and again.
ChanFairness ==
    /\ WF_vars(IpcRead)
    /\ SF_vars(IpcHandle)
    /\ WF_vars(IpcWrite)

\* The control channel beside a fairly scheduled orchestration loop.
SpecIpcFair ==
    /\ InitOf({NoDir}, {{}, Ids}, DirItems)
    /\ [][NextChan]_vars
    /\ LoopFairness
    /\ ChanFairness

(***************************************************************************)
(* Properties.                                                             *)
(***************************************************************************)
\* C1: in every reachable state the key set of watching (active) and the
\* set downloaded (terminal) are disjoint.
C1_ActiveTerminalDisjoint == Keyset(watching) \cap downloaded = {}

\* An Id is active and another is terminal after a reload, lock free.
C1_Witness ==
    /\ Keyset(watching) # {}
    /\ downloaded # {}
    /\ lock = "free"
    /\ log = "Reloaded config!"
    /\ mainPc = "tick"

\* C2: once an Id is in downloaded, no later step puts it into watching
\* again or takes it out of downloaded.
C2_TerminalStaysTerminal ==
    [][\A i \in downloaded : i \in downloaded' /\ i \notin Keyset(watching')]_vars

\* A dispatch pass has visited a subscribed Twitch Id that is terminal.
C2_Witness ==
    \E i \in downloaded :
        /\ i.kind = "Twitch"
        /\ i \in ids
        /\ subPc = "dispatch"
        /\ i \notin todo

\* C3: the reap pass removes every task whose handle reports completion
\* from watching and inserts its Id into downloaded in the same critical
\* section, and no Id is started twice.
C3_ReapMovesEveryFinished ==
    [][(subPc = "idle" /\ subPc' # "idle") =>
            /\ \A i \in Keyset(watching) :
                IsFinished(watching[i]) => (i \notin Keyset(watching') /\ i \in downloaded')
            /\ \A i \in Ids : spawned'[i] <= 1]_vars

\* The Ids whose canonical string is the name of a staging entry.
StagedIds(items) == {i \in Ids : [ok |-> TRUE, name |-> Format(i)] \in items}

\* C4: startup recovery leaves in watching exactly the Ids whose encoding
\* names a staging entry, with one task spawned for each and none for any
\* other Id; names that do not parse add no entry and do not stop it.
C4_RecoveryOnePerStagedId ==
    [][(subPc = "start" /\ subPc' # "start" /\ subPc' # "returned") =>
            /\ subPc' = "idle"
            /\ Keyset(watching') = StagedIds(dirEntries)
            /\ \A i \in Ids : spawned'[i] = IF i \in StagedIds(dirEntries) THEN 1 ELSE 0
            /\ \A i \in Keyset(watching') : watching'[i] = "running"]_vars

\* Recovery has acted (nothing is subscribed, nothing was reloaded, no
\* pass has moved anything): two tasks of both providers run.
C4_Witness ==
    /\ subPc = "idle"
    /\ ids = {}
    /\ log = ""
    /\ downloaded = {}
    /\ \E i, j \in Keyset(watching) : i.kind = "Yt" /\ j.kind = "Twitch"
    /\ \A i \in Keyset(watching) : watching[i] = "running" /\ spawned[i] = 1

\* C5: with every probe reporting live, a dispatch pass leaves every
\* subscribed Id in watching (or already terminal), no Id is spawned twice
\* and no Id that was spawned is lost: it is in watching or in downloaded.
C5_NoneLostNoneDuplicated ==
    /\ \A i \in Ids : spawned[i] <= 1
    /\ \A i \in Ids : spawned[i] = 1 => i \in Keyset(watching) \cup downloaded
    /\ (subPc = "dispatch" /\ todo = {}) => ids \subseteq Keyset(watching) \cup downloaded

\* C6: a reload whose Config::load fails leaves the subscribed set, the
\* working directory and the configuration as they were, and the daemon
\* keeps running.
C6_FailedReloadKeepsAll ==
    [][(reloadFlag /\ ~reloadFlag' /\ log' = "Failed to reload state") =>
            /\ ids' = ids
            /\ cwd' = cwd
            /\ config' = config
            /\ proc' = "running"
            /\ mainPc' = "tick"]_vars

\* A reload has failed with a subscribed set and a directory in place.
C6_Witness ==
    /\ log = "Failed to reload state"
    /\ ~reloadFlag
    /\ Running
    /\ ids # {}
    /\ cwd \in Dirs

\* C7: a reload is all-or-nothing: applying a loaded configuration leaves
\* either its subscribed set and its designated directory in place, or the
\* subscribed set and the directory as they were.
C7_ReloadAllOrNothing ==
    [][(mainPc = "apply" /\ mainPc' = "tick") =>
            \/ (ids' = config.ids /\ cwd' = Designated(config.dir))
            \/ (ids' = ids /\ cwd' = cwd)]_vars

\* C8: GetWatching answers with the keys of watching as they are when the
\* handler holds the lock, each once.
C8_GetWatchingIsActiveKeys ==
    [][(ipcPc = "handle" /\ ipcPc' = "write") =>
            /\ conn'.resp.tag = "Watching"
            /\ Len(conn'.resp.ids) = Cardinality(Keyset(watching))
            /\ {conn'.resp.ids[k] : k \in 1..Len(conn'.resp.ids)} = Keyset(watching)]_vars

\* An answer is about to be written that names an active Id while another
\* Id is terminal and a third is only subscribed.
C8_Witness ==
    /\ ipcPc = "write"
    /\ conn.resp.tag = "Watching"
    /\ Len(conn.resp.ids) >= 1
    /\ downloaded # {}
    /\ ids \ (Keyset(watching) \cup downloaded) # {}
    /\ {conn.resp.ids[k] : k \in 1..Len(conn.resp.ids)} \cap downloaded = {}

\* C9: a connection whose body was read and does not decode ends only by
\* its Error response having been written, with the server back at accept.
C9_MalformedAlwaysAnswered ==
    [][(ipcPc = "write" /\ ~DecodeOk(conn.body) /\ conn' = NoConn) =>
            (conn.resp = ErrorResp /\ ipcPc' = "accept")]_vars

\* C10: no step of the control channel changes the subscribed set,
\* watching or downloaded.
C10_IpcLeavesRegistry ==
    [][(ipcPc' # ipcPc \/ conn' # conn) =>
            (ids' = ids /\ watching' = watching /\ downloaded' = downloaded)]_vars

\* A malformed request has been handled while the registry holds active,
\* terminal and subscribed Ids.
C10_Witness ==
    /\ ipcPc = "write"
    /\ conn.resp = ErrorResp
    /\ Keyset(watching) # {}
    /\ downloaded # {}
    /\ ids # {}

\* C12: no subprocess is run while the registry lock is held: the step in
\* which the dispatch pass probes an Id is taken with the lock released.
C12_ProbeOutsideLock ==
    [][(subPc = "dispatch" /\ todo' # todo) => lock = "free"]_vars

\* C17: the reap pass of a cycle has moved every finished task into
\* downloaded before the dispatch pass has examined any Id, and a dispatch
\* step never starts a task for an Id that is in downloaded.
C17_ReapBeforeDispatch ==
    [][/\ (subPc = "idle" /\ subPc' = "dispatch") =>
            /\ \A i \in Keyset(watching) :
                IsFinished(watching[i]) => (i \in downloaded' /\ i \notin Keyset(watching'))
            /\ todo' = ids
            /\ spawned' = spawned
       /\ (subPc = "dispatch" /\ todo' # todo) =>
            /\ downloaded' = downloaded
            /\ \A i \in Keyset(watching') \ Keyset(watching) : i \notin downloaded
            /\ \A i \in Keyset(watching) : i \in Keyset(watching')]_vars

\* A dispatch pass that followed a reap has examined every subscribed Id,
\* all terminal Ids among them, and started a task.
C17_Witness ==
    /\ subPc = "dispatch"
    /\ todo = {}
    /\ downloaded # {}
    /\ downloaded \subseteq ids
    /\ \E i \in Keyset(watching) : watching[i] = "running" /\ i \in ids

\* C18: the dispatch pass probes a subscribed Id only when it is in
\* neither watching nor downloaded.
C18_ProbeOnlyUnknown ==
    [][(subPc = "dispatch" /\ todo' # todo) =>
            \A id \in todo \ todo' : id \notin Keyset(watching) \cup downloaded]_vars

\* C20: the key set of watching and the set downloaded change only in a
\* step of the orchestration loop that has the lock; a task thread changes
\* only its own handle; applying a reload leaves watching and downloaded,
\* running tasks included, as they were.
C20_OnlyLoopChangesRegistry ==
    [][/\ (Keyset(watching') # Keyset(watching) \/ downloaded' # downloaded) =>
            \/ (subPc = "start" /\ lock = "free" /\ subPc' = "idle")
            \/ (subPc = "idle" /\ lock = "free" /\ subPc' # "idle")
            \/ (subPc = "dispatch" /\ lock = "sub" /\ todo' # todo)
       /\ (\E i \in Keyset(watching) :
                /\ i \in Keyset(watching')
                /\ watching[i] = "running"
                /\ watching'[i] # "running") =>
            <<ids, downloaded, todo, subPc>>' = <<ids, downloaded, todo, subPc>>
       /\ (mainPc = "apply" /\ mainPc' = "tick") =>
            (watching' = watching /\ downloaded' = downloaded)]_vars

\* A reload has emptied the subscribed set while a task runs and a
\* Twitch Id is terminal.
C20_Witness ==
    /\ log = "Reloaded config!"
    /\ mainPc = "tick"
    /\ ids = {}
    /\ \E i \in Keyset(watching) : watching[i] = "running"
    /\ \E i \in downloaded : i.kind = "Twitch"

\* C16: the process ends with exit code 1 exactly when the orchestration
\* loop has died, and with exit code 0 in every other exit, the shutdown
\* on the terminate signal among them.
C16_ExitCodes ==
    ~Running => (IF SubFinished THEN proc = "exit1" ELSE proc = "exit0")

\* C14: a probe that ends in an error starts no task and moves no Id into
\* watching or downloaded, the pass goes on, and the next pass visits
\* every subscribed Id again.
C14_FailedProbeIsNotLive ==
    [][/\ (subPc = "dispatch" /\ todo' # todo) =>
            /\ watching' = watching
            /\ downloaded' = downloaded
            /\ spawned' = spawned
            /\ subPc' = "dispatch"
       /\ (subPc = "idle" /\ subPc' = "dispatch") => todo' = ids]_vars

\* C19: under a fairly scheduled loop, a task in watching whose handle
\* reports completion leads to its Id being in downloaded and no longer in
\* watching.
C19_FinishedEventuallyReaped ==
    \A i \in Ids :
        (i \in Keyset(watching) /\ IsFinished(watching[i]))
            ~> (i \in downloaded /\ i \notin Keyset(watching))

\* C13: the lock discipline has no deadlock: the lock is held only by the
\* orchestration loop inside its dispatch pass, where the loop can always
\* take its next step, and when the lock is free every thread that waits
\* for it can take it.
C13_NoLockDeadlock ==
    /\ lock \in {"free", "sub"}
    /\ lock = "sub" => subPc = "dispatch"
    /\ (Running /\ lock = "sub") =>
            ENABLED (\/ SubUnlock
                     \/ \E id \in Ids, o \in YtQuiet : SubProbeYt(id, o)
                     \/ \E id \in Ids, o \in TwitchProbeResults : SubProbeTwitch(id, o))
    /\ (Running /\ lock = "free" /\ subPc = "start") => ENABLED SubRecover
    /\ (Running /\ lock = "free" /\ subPc = "idle") => ENABLED SubReap
    /\ (Running /\ lock = "free" /\ ipcPc = "handle") => ENABLED IpcHandle
    /\ (Running /\ lock = "free" /\ mainPc = "apply") => ENABLED MainReloadApply

\* The loop holds the lock in its dispatch pass while the control channel
\* and the reload both wait for it.
C13_Witness ==
    /\ lock = "sub"
    /\ todo # {}
    /\ ipcPc = "handle"
    /\ mainPc = "apply"
    /\ Keyset(watching) # {}

\* C11: a task started when its staging file and its final file both
\* exist runs no yt-dlp process and returns Ok.
C11_BothExistNoSubprocess ==
    (task.pc = "done" /\ task.at.tmp /\ task.at.final) =>
        (task.calls = 0 /\ task.res = "ok")

\* C15: parsing the canonical string of an Id gives back that Id.
C15_ParseFormatRoundTrip ==
    rt.pc = "parsed" => (rt.ok /\ rt.out = rt.id)

\* An Id whose key itself begins with the prefix "yt:" has been formatted
\* and parsed.
C15_Witness ==
    /\ rt.pc = "parsed"
    /\ rt.id.kind = "Yt"
    /\ HasPrefix(rt.id.key, YtPrefix)
    /\ rt.str = YtPrefix \o YtPrefix

\* C21: however its tasks ended, a reap pass records every finished task
\* in downloaded, leaves the mutex unpoisoned and goes on to the dispatch
\* pass of its cycle.
C21_TaskEndNeverStopsLoop ==
    [][(subPc = "idle" /\ subPc' # "idle") =>
            /\ subPc' = "dispatch"
            /\ ~poisoned'
            /\ \A i \in Keyset(watching) : IsFinished(watching[i]) => i \in downloaded']_vars

\* C22: a task that returns from the output-name query returns a failure,
\* and a task returns success only when its final file exists.
C22_NoNameIsFailure ==
    [][(task.pc # "done" /\ task'.pc = "done") =>
            /\ task.pc = "query" => task'.res = "err"
            /\ task'.res = "ok" => task'.fs.final]_vars

\* C23: while the body of one connection is being read, the control
\* channel can accept another connection.
C23_AcceptWhileReading ==
    (Running /\ ipcPc = "read") => ENABLED (\E b \in Bodies : IpcAccept(b))

\* C24: after a reload has been applied, the working directory is the one
\* the new configuration designates when that differs from what the old
\* one designated, and is left as it was otherwise.
C24_ReloadSwitchesDirectory ==
    [][(mainPc = "apply" /\ mainPc' = "tick" /\ proc' = "running") =>
            IF Designated(config.dir) # Designated(oldDir)
            THEN cwd' = Designated(config.dir)
            ELSE cwd' = cwd]_vars

\* C25: a task that has returned success has left no staging directory.
C25_SuccessLeavesNoStaging ==
    (task.pc = "done" /\ task.res = "ok") => ~task.fs.dir

\* C26: whatever happens to a connection, the control channel comes back
\* to its accept loop, where a later request is taken and answered.
C26_ChannelStaysAvailable ==
    (conn # NoConn) ~> (ipcPc = "accept")

====
